---- MODULE Spec2Model ----
(***************************************************************************)
(* A model of src/utils.tsx: the URL normalisers, the metadata shape       *)
(* fixers, addressesEqual and promiseAny.                                  *)
(*                                                                         *)
(* A JavaScript string is a sequence of one-character strings, so that the *)
(* regular expressions and the URL parser are computed character by        *)
(* character.  A JavaScript value is a tagged record (see Undef, Str, Obj).*)
(***************************************************************************)
EXTENDS Integers, Sequences, FiniteSets, TLC

VARIABLES
    fn,       \* the function of utils.tsx that was called last ("none" at first)
    args,     \* its arguments
    result,   \* what it returned
    calls,    \* the argument lists the gateway builder was invoked with
    prev,     \* the previous result, when a function is applied to its own result
    times,    \* how many times in a row the function was applied
    size,     \* promiseAny: the number of promises in the collection
    op,       \* the state of each promise of the collection
    order,    \* the promises that fulfilled, in the order they did (history)
    called,   \* whether promiseAny has been called
    atCall,   \* the promises that were fulfilled when it was called (history)
    rev,      \* the state of reversePromise(promises[i])
    values,   \* Promise.all: the values collected so far
    remaining, \* Promise.all: how many promises have yet to fulfil
    allState, \* the state of the promise Promise.all returned
    allValue, \* its value or reason
    outer,    \* the state of the promise promiseAny returned ("none" before the call)
    outerValue, \* its value or reason
    queue     \* the microtask queue: the promise reaction jobs, oldest first

pureVars == <<fn, args, result, calls, prev, times>>

promiseVars ==
    <<size, op, order, called, atCall, rev, values, remaining, allState, allValue,
      outer, outerValue, queue>>

vars == <<pureVars, promiseVars>>

----------------------------------------------------------------------------
(* Strings *)

Min(a, b) == IF a < b THEN a ELSE b

Take(s, k) == SubSeq(s, 1, Min(k, Len(s)))

Drop(s, k) == SubSeq(s, k + 1, Len(s))

\* String.prototype.startsWith
StartsWith(s, p) == Len(s) >= Len(p) /\ SubSeq(s, 1, Len(p)) = p

\* p occurs in s at position i
OccursAt(s, p, i) == i >= 1 /\ i + Len(p) - 1 <= Len(s) /\ SubSeq(s, i, i + Len(p) - 1) = p

\* String.prototype.includes
Includes(s, p) == \E i \in 1..(Len(s) + 1) : OccursAt(s, p, i)

\* the position of the first character of s that is in set cs, Len(s) + 1 when none is
FirstOf(s, cs) ==
    IF \E i \in 1..Len(s) : s[i] \in cs
    THEN CHOOSE i \in 1..Len(s) : s[i] \in cs /\ \A j \in 1..(i - 1) : s[j] \notin cs
    ELSE Len(s) + 1

UpperLetters == <<"A","B","C","D","E","F","G","H","I","J","K","L","M","N","O","P","Q","R","S","T","U","V","W","X","Y","Z">>

LowerLetters == <<"a","b","c","d","e","f","g","h","i","j","k","l","m","n","o","p","q","r","s","t","u","v","w","x","y","z">>

Digits == {"0", "1", "2", "3", "4", "5", "6", "7", "8", "9"}

Range(s) == {s[i] : i \in 1..Len(s)}

LowerChar(c) ==
    IF c \in Range(UpperLetters)
    THEN LowerLetters[CHOOSE i \in 1..Len(UpperLetters) : UpperLetters[i] = c]
    ELSE c

\* String.prototype.toLowerCase
toLowerCase(s) == [i \in 1..Len(s) |-> LowerChar(s[i])]

----------------------------------------------------------------------------
(* ipfsUrl *)

\* the characters the regular expression dot does not match
LineTerminators == {"\n", "\r"}

\* [1-9A-HJ-NP-Za-km-z]
Base58Chars ==
    (Digits \ {"0"}) \cup (Range(UpperLetters) \ {"I", "O"}) \cup (Range(LowerLetters) \ {"l"})

\* the {44} of IPFS_HASH_RE
HashBodyLen == 44

IpfsProtocolPrefix == <<"i","p","f","s",":","/","/","i","p","f","s","/">>

GatewayPrefix == <<"h","t","t","p","s",":","/","/","i","p","f","s",".","i","o","/","i","p","f","s","/">>

\* a call of a gateway builder is the list of its arguments: <<cid, path>> or <<cid>>
ipfsUrlDefaultNoPath(a) == GatewayPrefix \o a[1]

\* ipfsUrlDefault(cid, path = "")
ipfsUrlDefault(a) ==
    LET cid == a[1]
        path == IF Len(a) >= 2 THEN a[2] ELSE <<>>
    IN  GatewayPrefix \o cid \o path

\* a builder a caller may inject: (cid, path) => "https://gw.example/" + cid + "?p=" + path,
\* an omitted path printing as "undefined"
customBuilder(a) ==
    LET cid == a[1]
        path == IF Len(a) >= 2 THEN a[2] ELSE <<"u","n","d","e","f","i","n","e","d">>
    IN  <<"h","t","t","p","s",":","/","/","g","w",".","e","x","a","m","p","l","e","/">> \o cid \o <<"?","p","=">> \o path

Builders == {"default", "custom"}

Build(b, a) == IF b = "default" THEN ipfsUrlDefault(a) ELSE customBuilder(a)

\* IPFS_PROTOCOL_RE.exec(url): /^ipfs:\/\/ipfs\/([^/]+)(\/.+)?$/
\* [^/]+ is greedy and stops at the first slash; what follows must be all of (\/.+)
\* or nothing. A group that did not take part is undefined: matched |-> FALSE.
IPFS_PROTOCOL_RE_exec(url) ==
    IF ~StartsWith(url, IpfsProtocolPrefix)
    THEN [matched |-> FALSE]
    ELSE LET rest == Drop(url, Len(IpfsProtocolPrefix))
             k == FirstOf(rest, {"/"})
             cid == Take(rest, k - 1)
             tail == Drop(rest, k - 1)
         IN  IF cid = <<>> THEN [matched |-> FALSE]
             ELSE IF tail = <<>> THEN [matched |-> TRUE, cid |-> cid, hasPath |-> FALSE, path |-> <<>>]
             ELSE IF Len(tail) >= 2 /\ \A i \in 2..Len(tail) : tail[i] \notin LineTerminators
                  THEN [matched |-> TRUE, cid |-> cid, hasPath |-> TRUE, path |-> tail]
                  ELSE [matched |-> FALSE]

\* a hash test that forgets the ^ anchor
IPFS_HASH_RE_test_unanchored(url) ==
    /\ Len(url) >= HashBodyLen + 2
    /\ LET s == Drop(url, Len(url) - (HashBodyLen + 2))
       IN  /\ s[1] = "Q" /\ s[2] = "m"
           /\ \A i \in 3..Len(s) : s[i] \in Base58Chars

\* IPFS_HASH_RE.test(url): /^Qm[1-9A-HJ-NP-Za-km-z]{44}$/
IPFS_HASH_RE_test(url) ==
    /\ Len(url) = HashBodyLen + 2
    /\ url[1] = "Q" /\ url[2] = "m"
    /\ \A i \in 3..Len(url) : url[i] \in Base58Chars

\* ipfsUrl(url, builder): the returned string and the builder's invocations
ipfsUrl(url, b) ==
    LET m == IPFS_PROTOCOL_RE_exec(url)
    IN  IF m.matched
        THEN \* const [, cid, path = ""] = ipfsProtocolMatch
             LET a == <<m.cid, IF m.hasPath THEN m.path ELSE <<>> >>
             IN  [ret |-> Build(b, a), calls |-> <<a>>]
        ELSE IF IPFS_HASH_RE_test(url)
        THEN [ret |-> Build(b, <<url>>), calls |-> << <<url>> >>]
        ELSE [ret |-> url, calls |-> <<>>]

normalizeImageUrl(url) == ipfsUrl(url, "default").ret

----------------------------------------------------------------------------
(* new URL(url), the getters and setters the module uses, and String(url) *)

\* the last position of character c in s, 0 when there is none
LastOf(s, c) ==
    IF \E i \in 1..Len(s) : s[i] = c
    THEN CHOOSE i \in 1..Len(s) : s[i] = c /\ \A j \in (i + 1)..Len(s) : s[j] # c
    ELSE 0

\* s without the characters of set cs
Without(s, cs) == SelectSeq(s, LAMBDA c : c \notin cs)

\* s without its leading characters of set cs
StripLeading(s, cs) ==
    IF \A i \in 1..Len(s) : s[i] \in cs THEN <<>>
    ELSE Drop(s, (CHOOSE i \in 1..Len(s) : s[i] \notin cs /\ \A j \in 1..(i - 1) : s[j] \in cs) - 1)

\* s without its trailing characters of set cs
StripTrailing(s, cs) ==
    IF \A i \in 1..Len(s) : s[i] \in cs THEN <<>>
    ELSE Take(s, CHOOSE i \in 1..Len(s) : s[i] \notin cs /\ \A j \in (i + 1)..Len(s) : s[j] \in cs)

RECURSIVE FlattenRange(_, _, _)
FlattenRange(ss, lo, hi) ==
    IF lo > hi THEN <<>>
    ELSE IF lo = hi THEN ss[lo]
    ELSE LET mid == (lo + hi) \div 2
         IN  FlattenRange(ss, lo, mid) \o FlattenRange(ss, mid + 1, hi)

\* the concatenation of a sequence of strings
Flatten(ss) == FlattenRange(ss, 1, Len(ss))

\* the percent codes of the characters a URL component may have to escape
PercentTable ==
    << <<" ", <<"%","2","0">>>>, <<"\"", <<"%","2","2">>>>, <<"#", <<"%","2","3">>>>, <<"<", <<"%","3","C">>>>,
       <<">", <<"%","3","E">>>>, <<"?", <<"%","3","F">>>>, <<"{", <<"%","7","B">>>>,
       <<"}", <<"%","7","D">>>>, <<"/", <<"%","2","F">>>>, <<":", <<"%","3","A">>>>, <<"=", <<"%","3","D">>>>,
       <<"&", <<"%","2","6">>>>, <<"+", <<"%","2","B">>>>, <<"%", <<"%","2","5">>>> >>

PercentCode(c) ==
    IF \E i \in 1..Len(PercentTable) : PercentTable[i][1] = c
    THEN PercentTable[CHOOSE i \in 1..Len(PercentTable) : PercentTable[i][1] = c][2]
    ELSE <<c>>

\* s with the characters of set cs replaced by their percent codes
PercentEncode(s, cs) ==
    Flatten([i \in 1..Len(s) |-> IF s[i] \in cs THEN PercentCode(s[i]) ELSE <<s[i]>>])

\* the path percent-encode set and the query percent-encode set, less the backquote
\* and the characters outside ASCII, which no input has
PathEncodeSet == {" ", "\"", "#", "<", ">", "?", "{", "}"}

QueryEncodeSet == {" ", "\"", "#", "<", ">"}

\* the special schemes the inputs use, with their default ports
SpecialSchemes == {<<"h","t","t","p">>, <<"h","t","t","p","s">>}

DefaultPort(scheme) == IF scheme = <<"h","t","t","p","s">> THEN <<"4","4","3">> ELSE <<"8","0">>

SchemeChars == Range(UpperLetters) \cup Range(LowerLetters) \cup Digits \cup {"+", "-", "."}

ForbiddenHostChars == {" ", "#", "/", ":", "<", ">", "?", "@", "[", "\\", "]", "^", "|", "%"}

ParseFailure == [ok |-> FALSE]

\* The path, query and fragment that follow the authority (or the scheme).
ParseTail(scheme, hasHost, host, t) ==
    LET special == scheme \in SpecialSchemes
        q == FirstOf(t, {"?", "#"})
        rawPath == Take(t, q - 1)
        afterPath == Drop(t, q - 1)
        hasQuery == afterPath # <<>> /\ afterPath[1] = "?"
        h == FirstOf(afterPath, {"#"})
        rawQuery == IF hasQuery THEN SubSeq(afterPath, 2, h - 1) ELSE <<>>
        hasHash == h <= Len(afterPath)
        rawHash == Drop(afterPath, h)
        path == IF special /\ rawPath = <<>> THEN <<"/">>
                ELSE PercentEncode(rawPath, PathEncodeSet)
    IN  [ok |-> TRUE, scheme |-> scheme, hasHost |-> hasHost, host |-> host,
         pathname |-> path,
         hasQuery |-> hasQuery, query |-> PercentEncode(rawQuery, QueryEncodeSet),
         hasHash |-> hasHash, hash |-> rawHash]

\* The authority: hostname[:port]. There is no userinfo in the inputs.
ParseAuthority(scheme, t) ==
    LET special == scheme \in SpecialSchemes
        e == FirstOf(t, {"/", "?", "#"})
        auth == Take(t, e - 1)
        c == LastOf(auth, ":")
        hostname == IF c = 0 THEN auth ELSE Take(auth, c - 1)
        port == IF c = 0 THEN <<>> ELSE Drop(auth, c)
        shownPort == IF special /\ port = DefaultPort(scheme) THEN <<>> ELSE port
        name == IF special THEN toLowerCase(hostname) ELSE hostname
        host == IF shownPort = <<>> THEN name ELSE name \o <<":">> \o shownPort
    IN  IF special /\ hostname = <<>> THEN ParseFailure
        ELSE IF \E i \in 1..Len(hostname) : hostname[i] \in ForbiddenHostChars THEN ParseFailure
        ELSE IF \E i \in 1..Len(port) : port[i] \notin Digits THEN ParseFailure
        ELSE ParseTail(scheme, TRUE, host, Drop(t, e - 1))

\* new URL(url), with no base: ok |-> FALSE when the constructor throws.
\* The parser strips leading and trailing spaces and control characters, drops
\* every tab and newline, lowercases the scheme and a special host, hides a
\* default port, gives a special URL the path "/" when it has none and
\* percent-encodes the path. (The inputs have no dot segments, no userinfo and
\* no backslashes, which the parser would rewrite too.)
NewURL(url) ==
    LET s == Without(StripTrailing(StripLeading(url, {" ", "\n", "\r", "\t"}),
                                   {" ", "\n", "\r", "\t"}),
                     {"\n", "\r", "\t"})
        c == FirstOf(s, {":"})
        scheme == toLowerCase(Take(s, c - 1))
        rest == Drop(s, c)
    IN  IF c > Len(s) \/ c = 1 THEN ParseFailure
        ELSE IF scheme[1] \notin Range(LowerLetters) THEN ParseFailure
        ELSE IF \E i \in 1..Len(scheme) : scheme[i] \notin SchemeChars THEN ParseFailure
        ELSE IF scheme \in SpecialSchemes
             THEN ParseAuthority(scheme, StripLeading(rest, {"/"}))
        ELSE IF StartsWith(rest, <<"/","/">>)
             THEN ParseAuthority(scheme, Drop(rest, 2))
        ELSE ParseTail(scheme, FALSE, <<>>, rest)

\* String(_url): the href
Href(u) ==
    u.scheme \o <<":">>
    \o (IF u.hasHost THEN <<"/","/">> \o u.host ELSE <<>>)
    \o u.pathname
    \o (IF u.hasQuery THEN <<"?">> \o u.query ELSE <<>>)
    \o (IF u.hasHash THEN <<"#">> \o u.hash ELSE <<>>)

\* _url.pathname = value, for a URL with a host: the value is parsed as a path,
\* which starts with a slash and has ? and # percent-encoded
SetPathname(u, value) ==
    LET v == IF value # <<>> /\ value[1] = "/" THEN value ELSE <<"/">> \o value
    IN  [u EXCEPT !.pathname = PercentEncode(v, PathEncodeSet)]

\* s.split(c): the pieces of s between the occurrences of character c
SplitOn(s, c) ==
    LET n == Cardinality({i \in 1..Len(s) : s[i] = c})
        \* the position of the k-th c; 0 before the first, Len(s) + 1 after the last
        at(k) == IF k = 0 THEN 0
                 ELSE IF k > n THEN Len(s) + 1
                 ELSE CHOOSE i \in 1..Len(s) :
                          s[i] = c /\ Cardinality({j \in 1..(i - 1) : s[j] = c}) = k - 1
    IN  [k \in 1..(n + 1) |-> SubSeq(s, at(k - 1) + 1, at(k) - 1)]

\* whether one of the table's percent codes starts at position i of s
CodeAt(s, i) == \E k \in 1..Len(PercentTable) : OccursAt(s, PercentTable[k][2], i)

\* the urlencoded parser's decoding of a name or a value: + is a space and a
\* percent code is its character (the two characters after a % are hex digits,
\* so no code starts inside another)
PercentDecode(s) ==
    Flatten([i \in 1..Len(s) |->
        IF CodeAt(s, i)
        THEN <<PercentTable[CHOOSE k \in 1..Len(PercentTable) : OccursAt(s, PercentTable[k][2], i)][1]>>
        ELSE IF CodeAt(s, i - 1) \/ CodeAt(s, i - 2) THEN <<>>
        ELSE IF s[i] = "+" THEN <<" ">>
        ELSE <<s[i]>>])

\* the application/x-www-form-urlencoded parser over the &-separated pieces:
\* an empty piece is skipped, the others split at their first =
ParsePairs(pieces) ==
    LET kept == SelectSeq(pieces, LAMBDA p : p # <<>>)
    IN  [k \in 1..Len(kept) |->
            LET e == FirstOf(kept[k], {"="})
            IN  <<PercentDecode(Take(kept[k], e - 1)), PercentDecode(Drop(kept[k], e))>>]

\* _url.searchParams: the list of name-value pairs of the query
SearchParams(u) == IF u.hasQuery THEN ParsePairs(SplitOn(u.query, "&")) ELSE <<>>

\* the characters the urlencoded serializer leaves alone
UrlencodedSafe == Range(UpperLetters) \cup Range(LowerLetters) \cup Digits \cup {"*", "-", ".", "_"}

UrlencodedEncode(s) ==
    Flatten([i \in 1..Len(s) |->
        IF s[i] = " " THEN <<"+">>
        ELSE IF s[i] \in UrlencodedSafe THEN <<s[i]>>
        ELSE PercentCode(s[i])])

\* the application/x-www-form-urlencoded serializer: name=value joined by &
SerializePairs(ps) ==
    Flatten([k \in 1..Len(ps) |->
        (IF k > 1 THEN <<"&">> ELSE <<>>)
        \o UrlencodedEncode(ps[k][1]) \o <<"=">> \o UrlencodedEncode(ps[k][2])])

RemoveNamed(ps, name) == SelectSeq(ps, LAMBDA p : p[1] # name)

\* URLSearchParams.prototype.set: the first pair of that name gets the value and
\* the others of that name go; with no such pair, one is appended
SetPair(ps, name, value) ==
    IF \E i \in 1..Len(ps) : ps[i][1] = name
    THEN LET k == CHOOSE i \in 1..Len(ps) : ps[i][1] = name /\ \A j \in 1..(i - 1) : ps[j][1] # name
         IN  SubSeq(ps, 1, k - 1) \o << <<name, value>> >> \o RemoveNamed(Drop(ps, k), name)
    ELSE ps \o << <<name, value>> >>

\* _url.searchParams.set(name, value): the query becomes the serialized list
SearchParamsSet(u, name, value) ==
    [u EXCEPT !.hasQuery = TRUE,
              !.query = SerializePairs(SetPair(SearchParams(u), name, value))]

----------------------------------------------------------------------------
(* normalizeOpenSeaUrl, normalizeNiftyGatewayUrl, normalizeTokenUrl *)

OpenSeaHost == <<"a","p","i",".","o","p","e","n","s","e","a",".","i","o">>

NiftyGatewayHost == <<"a","p","i",".","n","i","f","t","y","g","a","t","e","w","a","y",".","c","o","m">>

\* "0x%7Bid%7D" = 0x{id} (url encoded)
Placeholder == <<"0","x","%","7","B","i","d","%","7","D">>

\* replace without the g flag: the first occurrence only
ReplaceFirst(s, p, r) ==
    IF Includes(s, p)
    THEN LET i == CHOOSE i \in 1..Len(s) : OccursAt(s, p, i) /\ \A j \in 1..(i - 1) : ~OccursAt(s, p, j)
         IN  Take(s, i - 1) \o r \o Drop(s, i + Len(p) - 1)
    ELSE s

\* s.replace(/p/g, r), for an r without $ patterns and a p no two occurrences of
\* which overlap (the placeholder's first character occurs nowhere else in it)
ReplaceAll(s, p, r) ==
    Flatten([i \in 1..Len(s) |->
        IF OccursAt(s, p, i) THEN r
        ELSE IF \E k \in 1..(Len(p) - 1) : OccursAt(s, p, i - k) THEN <<>>
        ELSE <<s[i]>>])

normalizeOpenSeaUrl(url, tokenId) ==
    LET _url == NewURL(url)
    IN  IF ~_url.ok THEN url   \* catch (err)
        ELSE IF _url.host # OpenSeaHost \/ ~Includes(_url.pathname, Placeholder) THEN url
        ELSE Href(SearchParamsSet(
                 SetPathname(_url, ReplaceAll(_url.pathname, Placeholder, tokenId)),
                 <<"f","o","r","m","a","t">>, <<"j","s","o","n">>))

\* a slash appended only to a path that does not end with one
normalizeNiftyGatewayUrlOnce(url) ==
    LET _url == NewURL(url)
    IN  IF ~_url.ok THEN url
        ELSE IF _url.host # NiftyGatewayHost THEN url
        ELSE IF _url.pathname[Len(_url.pathname)] = "/" THEN Href(_url)
        ELSE Href(SetPathname(_url, _url.pathname \o <<"/">>))

normalizeNiftyGatewayUrl(url) ==
    LET _url == NewURL(url)
    IN  IF ~_url.ok THEN url   \* catch (err)
        ELSE IF _url.host # NiftyGatewayHost THEN url
        ELSE Href(SetPathname(_url, _url.pathname \o <<"/">>))

\* the Nifty Gateway stage left out
normalizeTokenUrlNoNifty(url, tokenId) ==
    LET url1 == normalizeOpenSeaUrl(url, tokenId)
        url3 == ipfsUrl(url1, "default").ret
    IN  url3

normalizeTokenUrl(url, tokenId) ==
    LET url1 == normalizeOpenSeaUrl(url, tokenId)
        url2 == normalizeNiftyGatewayUrl(url1)
        url3 == ipfsUrl(url2, "default").ret
    IN  url3

----------------------------------------------------------------------------
(* JavaScript values *)

Undef == [t |-> "undefined"]

Null == [t |-> "null"]

Str(s) == [t |-> "string", s |-> s]

Num(n) == [t |-> "number", n |-> n]

Bool(b) == [t |-> "boolean", b |-> b]

\* an object: f maps the names of its own properties to their values
Obj(f) == [t |-> "object", f |-> f]

\* the function with no arguments: the properties of {}
NoProps == [k \in {} |-> Undef]

\* typeof v
typeof(v) == IF v.t = "null" THEN "object" ELSE v.t

\* whether v is truthy: !v is its negation
Truthy(v) ==
    CASE v.t = "undefined" -> FALSE
      [] v.t = "null" -> FALSE
      [] v.t = "string" -> Len(v.s) > 0
      [] v.t = "number" -> v.n # 0
      [] v.t = "boolean" -> v.b
      [] OTHER -> TRUE

\* k in v, for an object v
HasProp(v, k) == k \in DOMAIN v.f

\* v.k, for a v that is neither null nor undefined: undefined when v has no such
\* property (a primitive has none of the names the module reads)
Get(v, k) == IF v.t = "object" /\ k \in DOMAIN v.f THEN v.f[k] ELSE Undef

\* v?.k
OptGet(v, k) == IF v.t \in {"undefined", "null"} THEN Undef ELSE Get(v, k)

\* v === "s"
IsString(v, s) == v.t = "string" /\ v.s = s

\* a || b
Or(a, b) == IF Truthy(a) THEN a ELSE b

\* { ...v, k: x }
SpreadWith(v, k, x) == Obj([j \in DOMAIN v.f \cup {k} |-> IF j = k THEN x ELSE v.f[j]])

----------------------------------------------------------------------------
(* fixIncorrectImageField, isNftMetadataMixedInJsonSchema,                 *)
(* fixNftMetadataMixedInJsonSchema, isNftMetadata, addressesEqual          *)

\* what a function returns when it may return its argument itself: ref says
\* whether val is the argument ("data") or a new object ("copy")
Same(data) == [ref |-> "data", val |-> data]

Copy(v) == [ref |-> "copy", val |-> v]

\* imageUrl copied whatever its type
fixIncorrectImageFieldAnyType(data) ==
    IF ~Truthy(data) \/ typeof(data) # "object" THEN Same(data)
    ELSE IF typeof(OptGet(data, "image")) = "undefined" /\ HasProp(data, "imageUrl")
         THEN Copy(SpreadWith(data, "image", OptGet(data, "imageUrl")))
    ELSE Same(data)

fixIncorrectImageField(data) ==
    IF ~Truthy(data) \/ typeof(data) # "object" THEN Same(data)
    ELSE IF /\ typeof(OptGet(data, "image")) = "undefined"
            /\ typeof(OptGet(data, "imageUrl")) = "string"
         THEN Copy(SpreadWith(data, "image", OptGet(data, "imageUrl")))
    ELSE Same(data)

\* _data.properties?.[prop]?.[field]
SchemaField(data, prop, field) == OptGet(OptGet(Get(data, "properties"), prop), field)

\* the type of properties.image left unchecked
isNftMetadataMixedInJsonSchemaLax(data) ==
    IF ~Truthy(data) \/ typeof(data) # "object" THEN FALSE
    ELSE /\ IsString(Get(data, "title"), "Asset Metadata")
         /\ IsString(Get(data, "type"), "object")
         /\ typeof(SchemaField(data, "name", "description")) = "string"
         /\ typeof(SchemaField(data, "image", "description")) = "string"
         /\ typeof(SchemaField(data, "description", "description")) = "string"
         /\ IsString(SchemaField(data, "name", "type"), "string")
         /\ IsString(SchemaField(data, "description", "type"), "string")

isNftMetadataMixedInJsonSchema(data) ==
    IF ~Truthy(data) \/ typeof(data) # "object" THEN FALSE
    ELSE /\ IsString(Get(data, "title"), "Asset Metadata")
         /\ IsString(Get(data, "type"), "object")
         /\ typeof(SchemaField(data, "name", "description")) = "string"
         /\ typeof(SchemaField(data, "image", "description")) = "string"
         /\ typeof(SchemaField(data, "description", "description")) = "string"
         /\ IsString(SchemaField(data, "name", "type"), "string")
         /\ IsString(SchemaField(data, "image", "type"), "string")
         /\ IsString(SchemaField(data, "description", "type"), "string")

\* data?.properties?.[prop]?.description || ""
DescriptionOr(data, prop) ==
    Or(OptGet(OptGet(OptGet(data, "properties"), prop), "description"), Str(""))

fixNftMetadataMixedInJsonSchema(data) ==
    Obj([name |-> DescriptionOr(data, "name"),
         description |-> DescriptionOr(data, "description"),
         image |-> DescriptionOr(data, "image")])

isNftMetadata(data) ==
    IF ~Truthy(data) \/ typeof(data) # "object" THEN FALSE
    ELSE HasProp(data, "name") /\ HasProp(data, "image") /\ HasProp(data, "description")

\* addr?.toLowerCase(), for an address that is a string, null or undefined
OptToLowerCase(addr) ==
    IF addr.t \in {"undefined", "null"} THEN Undef ELSE Str(toLowerCase(addr.s))

\* a === b, for two values each a string or undefined
StrictEquals(a, b) == a.t = b.t /\ (a.t = "string" => a.s = b.s)

addressesEqual(addr1, addr2) == StrictEquals(OptToLowerCase(addr1), OptToLowerCase(addr2))

----------------------------------------------------------------------------
(* Inputs *)

Hash == <<"Q","m","N","t","5","T","9","H","S","X","K","L","X","Z","3","k","m","c","i","U","4","T","m","6","q","9","R","8","J","E","m","5","i","f","J","k","P","o","x","a","p","j","y","R","U","R">>

Prefixes ==
    { <<>>, IpfsProtocolPrefix, <<"i","p","f","s",":","/","/">>, <<"I","P","F","S",":","/","/","i","p","f","s","/">>, <<" ","i","p","f","s",":","/","/","i","p","f","s","/">>,
      GatewayPrefix, <<"h","t","t","p",":","/","/","i","p","f","s",".","i","o","/","i","p","f","s","/">> }

Cids ==
    { Hash, Take(Hash, Len(Hash) - 1), Hash \o <<"x">>,
      [Hash EXCEPT ![5] = "0"], [Hash EXCEPT ![46] = "l"], [Hash EXCEPT ![1] = "q"],
      <<"b","a","f","y">>, <<>> }

Tails ==
    { <<>>, <<"/">>, <<"/","a">>, <<"/","s","u","b","/","p","a","t","h">>, <<"/","/","x">>, <<"/","a","\n","b">>, <<"\n">>, <<"/","a","?","b","#","c">> }

IpfsInputs == { p \o c \o t : p \in Prefixes, c \in Cids, t \in Tails }

Origins ==
    { <<"h","t","t","p","s",":","/","/","a","p","i",".","o","p","e","n","s","e","a",".","i","o">>, <<"H","T","T","P","S",":","/","/","A","P","I",".","O","p","e","n","S","e","a",".","i","o">>, <<"h","t","t","p","s",":","/","/","a","p","i",".","o","p","e","n","s","e","a",".","i","o",":","4","4","3">>,
      <<"h","t","t","p","s",":","/","/","a","p","i",".","o","p","e","n","s","e","a",".","i","o",":","8","0","8","0">>, <<"h","t","t","p",":","/","/","a","p","i",".","o","p","e","n","s","e","a",".","i","o">>, <<"h","t","t","p","s",":","/","/","o","p","e","n","s","e","a",".","i","o">>,
      <<"a","p","i",".","o","p","e","n","s","e","a",".","i","o">>, <<" ","h","t","t","p","s",":","/","/","a","p","i",".","o","p","e","n","s","e","a",".","i","o">>,
      <<"h","t","t","p","s",":","/","/","a","p","i",".","n","i","f","t","y","g","a","t","e","w","a","y",".","c","o","m">>, <<"h","t","t","p","s",":","/","/","A","P","I",".","N","I","F","T","Y","G","A","T","E","W","A","Y",".","C","O","M">>,
      <<"h","t","t","p","s",":","a","p","i",".","n","i","f","t","y","g","a","t","e","w","a","y",".","c","o","m">>, <<"h","t","t","p","s",":","/","/","n","i","f","t","y","g","a","t","e","w","a","y",".","c","o","m">>,
      <<"h","t","t","p","s",":","/","/","a","p","i",".","n","i","f","t","y"," ","g","a","t","e","w","a","y",".","c","o","m">>, <<"h","t","t","p","s",":","/","/","e","x","a","m","p","l","e",".","c","o","m">>, <<"i","p","f","s",":","/","/","i","p","f","s">>, <<>> }

Paths ==
    { <<>>, <<"/">>, <<"/","p","a","t","h">>, <<"/","p","a","t","h","/">>, <<"/","a","p","i","/","v","1","/","a","s","s","e","t","/","0","x","%","7","B","i","d","%","7","D">>,
      <<"/","a","p","i","/","v","1","/","a","s","s","e","t","/","0","x","{","i","d","}">>, <<"/","0","x","%","7","B","i","d","%","7","D","/","x","/","0","x","%","7","B","i","d","%","7","D">>, <<"/","a","s","s","e","t","/","0","x","%","7","b","i","d","%","7","d">> }

Suffixes ==
    { <<>>, <<"?","f","o","r","m","a","t","=","x","m","l">>, <<"?","a","=","1","&","f","o","r","m","a","t","=","x","m","l","&","f","o","r","m","a","t","=","r","a","w","&","b","=","2">>, <<"?","f","l","a","g">>, <<"#","f","r","a","g">>,
      <<"?","q","=","a","+","b","#","f">> }

UrlInputs == { o \o p \o s : o \in Origins, p \in Paths, s \in Suffixes }

\* a token id is an integer, printed in decimal or in hexadecimal
TokenIds == { <<"4","2">>, <<"7">>, <<"0","x","2","a">> }

\* JSON values of a metadata document's fields
FieldValues == { Str("a.png"), Str(""), Null, Num(1), Obj(NoProps) }

ImageKeys == {"image", "imageUrl", "name"}

\* what fixIncorrectImageField may be given: any JSON value
ImageDatas ==
    { Undef, Null, Num(0), Num(7), Str(""), Str("a.png"), Bool(FALSE), Bool(TRUE) }
    \cup { Obj(f) : f \in UNION { [ks -> FieldValues] : ks \in SUBSET ImageKeys } }

\* the value the schema-shaped document holds for property p
DescriptionOf(p) ==
    CASE p = "name" -> "A name" [] p = "image" -> "ipfs://ipfs/x" [] OTHER -> "A description"

Absent == [t |-> "absent"]

\* what properties.p may be; Absent stands for the property not being there
PropertyValues(p) ==
    { Absent, Null, Str("string"),
      Obj([type |-> Str("string"), description |-> Str(DescriptionOf(p))]),
      Obj([type |-> Str("string"), description |-> Str("")]),
      Obj([type |-> Str("string")]),
      Obj([type |-> Str("number"), description |-> Str(DescriptionOf(p))]),
      Obj([type |-> Str("string"), description |-> Num(1)]) }

\* the object with the properties of ks that cand gives a value
ObjOf(ks, cand) ==
    Obj([k \in {j \in ks : cand[j] # Absent} |-> cand[k]])

SchemaKeys == {"name", "image", "description"}

PropertiesValues ==
    { Absent, Null, Str("x") }
    \cup { ObjOf(SchemaKeys, [name |-> n, image |-> i, description |-> d]) :
             n \in PropertyValues("name"), i \in PropertyValues("image"),
             d \in PropertyValues("description") }

\* what the schema functions may be given
SchemaDatas ==
    { Undef, Null, Num(0), Str("Asset Metadata") }
    \cup { ObjOf({"title", "type", "properties"}, [title |-> t, type |-> y, properties |-> p]) :
             t \in { Absent, Str("Asset Metadata"), Str("asset metadata") },
             y \in { Absent, Str("object"), Str("string") },
             p \in PropertiesValues }

Addr == <<"0","x","5","A","A","E","B","6","0","5","3","f","3","e","9","4","c","9","b","9","a","0","9","F","3","3","6","6","9","4","3","5","e","7","e","F","1","b","E","a","E","D">>

\* an address is a string; a caller may also hold none yet
Addresses ==
    { Undef, Null, Str(Addr), Str(toLowerCase(Addr)), Str([Addr EXCEPT ![42] = "0"]),
      Str(<<"0","x">>), Str(<<>>) }

----------------------------------------------------------------------------
(* The calls *)

\* no function of the module has been called
NothingCalled ==
    /\ fn = "none"
    /\ args = <<>>
    /\ result = <<>>
    /\ calls = <<>>
    /\ prev = <<>>
    /\ times = 0

\* a collection of k pending promises that promiseAny has not been given yet
Collection(k) ==
    /\ size = k
    /\ op = [i \in 1..k |-> "pending"]
    /\ order = <<>>
    /\ called = FALSE
    /\ atCall = {}
    /\ rev = [i \in 1..k |-> "pending"]
    /\ values = [i \in 1..k |-> Undef]
    /\ remaining = k
    /\ allState = "pending"
    /\ allValue = Undef
    /\ outer = "none"
    /\ outerValue = Undef
    /\ queue = <<>>

Init == NothingCalled /\ Collection(0)

CallIpfsUrl ==
    /\ fn = "none"
    /\ \E u \in IpfsInputs \cup UrlInputs, b \in Builders :
        LET r == ipfsUrl(u, b)
        IN  /\ fn' = "ipfsUrl"
            /\ args' = <<u, b>>
            /\ result' = r.ret
            /\ calls' = r.calls
            /\ prev' = <<>>
            /\ times' = 1
            /\ UNCHANGED promiseVars
        /\ UNCHANGED promiseVars

CallNormalizeOpenSeaUrl ==
    /\ fn = "none"
    /\ \E u \in UrlInputs, t \in TokenIds :
        /\ fn' = "normalizeOpenSeaUrl"
        /\ args' = <<u, t>>
        /\ result' = normalizeOpenSeaUrl(u, t)
        /\ calls' = <<>>
        /\ prev' = <<>>
        /\ times' = 1
        /\ UNCHANGED promiseVars

CallNormalizeNiftyGatewayUrl ==
    /\ fn = "none"
    /\ \E u \in UrlInputs :
        /\ fn' = "normalizeNiftyGatewayUrl"
        /\ args' = <<u>>
        /\ result' = normalizeNiftyGatewayUrl(u)
        /\ calls' = <<>>
        /\ prev' = <<>>
        /\ times' = 1
        /\ UNCHANGED promiseVars

CallNormalizeTokenUrl ==
    /\ fn = "none"
    /\ \E u \in IpfsInputs \cup UrlInputs, t \in TokenIds :
        /\ fn' = "normalizeTokenUrl"
        /\ args' = <<u, t>>
        /\ result' = normalizeTokenUrl(u, t)
        /\ calls' = <<>>
        /\ prev' = <<>>
        /\ times' = 1
        /\ UNCHANGED promiseVars

CallNormalizeImageUrl ==
    /\ fn = "none"
    /\ \E u \in IpfsInputs \cup UrlInputs :
        /\ fn' = "normalizeImageUrl"
        /\ args' = <<u>>
        /\ result' = normalizeImageUrl(u)
        /\ calls' = <<>>
        /\ prev' = <<>>
        /\ times' = 1
        /\ UNCHANGED promiseVars

\* normalizeImageUrl applied to what normalizeImageUrl returned
CallNormalizeImageUrlAgain ==
    /\ fn = "normalizeImageUrl"
    /\ times = 1
    /\ fn' = fn
    /\ args' = args
    /\ prev' = result
    /\ result' = normalizeImageUrl(result)
    /\ calls' = <<>>
    /\ times' = 2
    /\ UNCHANGED promiseVars

CallFixIncorrectImageField ==
    /\ fn = "none"
    /\ \E d \in ImageDatas :
        /\ fn' = "fixIncorrectImageField"
        /\ args' = <<d>>
        /\ result' = fixIncorrectImageField(d)
        /\ calls' = <<>>
        /\ prev' = <<>>
        /\ times' = 1
        /\ UNCHANGED promiseVars

CallIsNftMetadataMixedInJsonSchema ==
    /\ fn = "none"
    /\ \E d \in SchemaDatas :
        /\ fn' = "isNftMetadataMixedInJsonSchema"
        /\ args' = <<d>>
        /\ result' = isNftMetadataMixedInJsonSchema(d)
        /\ calls' = <<>>
        /\ prev' = <<>>
        /\ times' = 1
        /\ UNCHANGED promiseVars

CallFixNftMetadataMixedInJsonSchema ==
    /\ fn = "none"
    /\ \E d \in SchemaDatas :
        /\ fn' = "fixNftMetadataMixedInJsonSchema"
        /\ args' = <<d>>
        /\ result' = fixNftMetadataMixedInJsonSchema(d)
        /\ calls' = <<>>
        /\ prev' = <<>>
        /\ times' = 1
        /\ UNCHANGED promiseVars

\* isNftMetadata applied to what fixNftMetadataMixedInJsonSchema returned
CallIsNftMetadata ==
    /\ fn = "fixNftMetadataMixedInJsonSchema"
    /\ times = 1
    /\ fn' = fn
    /\ args' = args
    /\ prev' = result
    /\ result' = isNftMetadata(result)
    /\ calls' = <<>>
    /\ times' = 2
    /\ UNCHANGED promiseVars

CallAddressesEqual ==
    /\ fn = "none"
    /\ \E a \in Addresses, b \in Addresses :
        /\ fn' = "addressesEqual"
        /\ args' = <<a, b>>
        /\ result' = addressesEqual(a, b)
        /\ calls' = <<>>
        /\ prev' = <<>>
        /\ times' = 1
        /\ UNCHANGED promiseVars

\* the caller is done with the result; the functions keep no state
Return ==
    /\ fn # "none"
    /\ fn' = "none"
    /\ args' = <<>>
    /\ result' = <<>>
    /\ calls' = <<>>
    /\ prev' = <<>>
    /\ times' = 0
    /\ UNCHANGED promiseVars

Next ==
    \/ CallIpfsUrl
    \/ CallNormalizeOpenSeaUrl
    \/ CallNormalizeNiftyGatewayUrl
    \/ CallNormalizeTokenUrl
    \/ CallNormalizeImageUrl
    \/ CallNormalizeImageUrlAgain
    \/ CallFixIncorrectImageField
    \/ CallIsNftMetadataMixedInJsonSchema
    \/ CallFixNftMetadataMixedInJsonSchema
    \/ CallIsNftMetadata
    \/ CallAddressesEqual
    \/ Return

Spec == Init /\ [][Next]_vars

----------------------------------------------------------------------------
(* promiseAny and reversePromise, over the promise reaction jobs of the     *)
(* host: a settled promise queues one job per reaction, then() on a settled *)
(* promise queues the job at once, and the jobs run oldest first.           *)

\* the largest collection
MaxOps == 3

\* what promise i fulfils with, and what it rejects with
ValueOf(i) == Num(i)

ReasonOf(i) == [t |-> "error", of |-> i]

Arr(items) == [t |-> "array", items |-> items]

Settlement(i) == IF op[i] = "fulfilled" THEN ValueOf(i) ELSE ReasonOf(i)

Job(kind, i) == [job |-> kind, i |-> i]

\* a reversePromise that forgets to swap the handlers: then(resolve, reject)
reversePromiseStraight(state) == state

\* reversePromise: Promise.resolve(promise).then(reject, resolve) settles the new
\* promise the other way, with the same value
reversePromise(state) == IF state = "fulfilled" THEN "rejected" ELSE "fulfilled"

\* a promise of the collection fulfils: its reaction, if promiseAny has
\* registered one, is queued
Fulfil ==
    \E i \in 1..size :
        /\ op[i] = "pending"
        /\ op' = [op EXCEPT ![i] = "fulfilled"]
        /\ order' = Append(order, i)
        /\ queue' = IF called THEN Append(queue, Job("op", i)) ELSE queue
        /\ UNCHANGED <<size, called, atCall, rev, values, remaining, allState, allValue,
                       outer, outerValue>>
        /\ UNCHANGED pureVars

\* a promise of the collection rejects
Reject ==
    \E i \in 1..size :
        /\ op[i] = "pending"
        /\ op' = [op EXCEPT ![i] = "rejected"]
        /\ queue' = IF called THEN Append(queue, Job("op", i)) ELSE queue
        /\ UNCHANGED <<size, order, called, atCall, rev, values, remaining, allState,
                       allValue, outer, outerValue>>
        /\ UNCHANGED pureVars

\* promiseAny(promises), one synchronous run: reversePromise on each promise in
\* turn (the reaction of a promise already settled is queued at once), then
\* Promise.all on the reversed promises, all pending still (with none to wait
\* for it fulfils at once, with []), then reversePromise on its result.
CallPromiseAny ==
    /\ ~called
    /\ called' = TRUE
    /\ atCall' = {i \in 1..size : op[i] = "fulfilled"}
    /\ outer' = "pending"
    /\ allState' = IF size = 0 THEN "fulfilled" ELSE "pending"
    /\ allValue' = IF size = 0 THEN Arr(<<>>) ELSE allValue
    /\ LET settled == SelectSeq([i \in 1..size |-> i], LAMBDA i : op[i] # "pending")
       IN  queue' = queue \o [k \in 1..Len(settled) |-> Job("op", settled[k])]
                          \o (IF size = 0 THEN <<Job("all", 0)>> ELSE <<>>)
    /\ UNCHANGED <<size, op, order, rev, values, remaining, outerValue>>
    /\ UNCHANGED pureVars

\* the job of then(reject, resolve) on promises[i]: reversePromise's promise settles
\* and the reaction Promise.all has on it is queued
RunReverseJob ==
    /\ queue # <<>>
    /\ Head(queue).job = "op"
    /\ LET i == Head(queue).i
       IN  /\ rev' = [rev EXCEPT ![i] = reversePromise(op[i])]
           /\ queue' = Append(Tail(queue), Job("rev", i))
    /\ UNCHANGED <<size, op, order, called, atCall, values, remaining, allState, allValue,
                   outer, outerValue>>
    /\ UNCHANGED pureVars

\* the job of Promise.all's reaction on the i-th reversed promise: a fulfilment
\* is collected, and the last one fulfils the result with the values; a
\* rejection rejects the result, if it is pending still
RunAllJob ==
    /\ queue # <<>>
    /\ Head(queue).job = "rev"
    /\ LET i == Head(queue).i
           collected == [values EXCEPT ![i] = Settlement(i)]
       IN  IF rev[i] = "fulfilled"
           THEN /\ values' = collected
                /\ remaining' = remaining - 1
                /\ IF remaining = 1 /\ allState = "pending"
                   THEN /\ allState' = "fulfilled"
                        /\ allValue' = Arr(collected)
                        /\ queue' = Append(Tail(queue), Job("all", 0))
                   ELSE /\ queue' = Tail(queue)
                        /\ UNCHANGED <<allState, allValue>>
           ELSE /\ UNCHANGED <<values, remaining>>
                /\ IF allState = "pending"
                   THEN /\ allState' = "rejected"
                        /\ allValue' = Settlement(i)
                        /\ queue' = Append(Tail(queue), Job("all", 0))
                   ELSE /\ queue' = Tail(queue)
                        /\ UNCHANGED <<allState, allValue>>
    /\ UNCHANGED <<size, op, order, called, atCall, rev, outer, outerValue>>
    /\ UNCHANGED pureVars

\* the job of the outer reversePromise's then(reject, resolve) on Promise.all's
\* result: the promise promiseAny returned settles the other way
RunOuterJob ==
    /\ queue # <<>>
    /\ Head(queue).job = "all"
    /\ outer' = reversePromise(allState)
    /\ outerValue' = allValue
    /\ queue' = Tail(queue)
    /\ UNCHANGED <<size, op, order, called, atCall, rev, values, remaining, allState,
                   allValue>>
    /\ UNCHANGED pureVars

\* the host runs the oldest job
RunJob == RunReverseJob \/ RunAllJob \/ RunOuterJob

PromiseInit == NothingCalled /\ \E k \in 0..MaxOps : Collection(k)

PromiseNext ==
    \/ Fulfil
    \/ Reject
    \/ CallPromiseAny
    \/ RunReverseJob
    \/ RunAllJob
    \/ RunOuterJob

PromiseSpec == PromiseInit /\ [][PromiseNext]_vars

\* the host runs every queued job before it goes idle
FairPromiseSpec == PromiseSpec /\ WF_vars(RunJob)

----------------------------------------------------------------------------
(* Claims about promiseAny *)

\* the promise whose fulfilment promiseAny sees first: of those fulfilled when
\* it was called the one at the lowest position, else the first to fulfil
FirstSeen ==
    IF atCall # {} THEN CHOOSE i \in atCall : \A j \in atCall : i <= j
    ELSE IF order # <<>> THEN order[1]
    ELSE 0

\* a step leaves a settled promiseAny as it is
OutcomeKept ==
    (outer = "fulfilled" \/ outer = "rejected") => (outer' = outer /\ outerValue' = outerValue)

\* C1, as claimed: promiseAny fulfils with the value of the promise that
\* fulfilled earliest in time, whatever its position in the collection.
C1_EarliestFulfilledWins ==
    outer = "fulfilled" => (order # <<>> /\ outerValue = ValueOf(order[1]))

\* C1, amended: promiseAny fulfils with the value of the promise whose fulfilment
\* it sees first (of the promises already fulfilled when it is called, the one
\* at the lowest position; with none, the first to fulfil after the call),
\* however many promises rejected before; once it has settled nothing changes
\* the outcome; and it does fulfil once it is called and some promise has
\* fulfilled.
C1_FirstSeenWins ==
    /\ [](outer = "fulfilled" => (FirstSeen # 0 /\ outerValue = ValueOf(FirstSeen)))
    /\ [][OutcomeKept]_vars
    /\ (called /\ \E i \in 1..size : op[i] = "fulfilled") ~> (outer = "fulfilled")

\* promiseAny fulfilled with the value of the last promise of three, which
\* fulfilled after the call and after the two before it had rejected
C1_Witness ==
    /\ size = 3
    /\ atCall = {}
    /\ op[1] = "rejected" /\ op[2] = "rejected"
    /\ order = <<3>>
    /\ outer = "fulfilled"
    /\ outerValue = ValueOf(3)

\* C2: promiseAny is rejected only when every promise of the collection has
\* rejected, never while one is pending or has fulfilled; it does reject once it
\* is called and all have rejected; for the empty collection it rejects.
C2_RejectsIffAllRejected ==
    /\ [](outer = "rejected" => \A i \in 1..size : op[i] = "rejected")
    /\ (called /\ \A i \in 1..size : op[i] = "rejected") ~> (outer = "rejected")
    /\ [](size = 0 => outer # "fulfilled")
    /\ (called /\ size = 0) ~> (outer = "rejected" /\ outerValue = Arr(<<>>))

\* promiseAny rejected after the two promises it was given rejected
C2_Witness ==
    /\ size = 2
    /\ outer = "rejected"
    /\ outerValue = Arr(<<ReasonOf(1), ReasonOf(2)>>)

----------------------------------------------------------------------------
(* Claims about ipfsUrl and the URL normalisers *)

\* url is ipfs://ipfs/<cid> followed by nothing or by /<path>, with k the last
\* position of the cid: a cid is a non-empty run without a slash, a path a
\* non-empty run of characters on one line
ProtocolFormAt(url, k) ==
    /\ StartsWith(url, <<"i","p","f","s",":","/","/","i","p","f","s","/">>)
    /\ k > 12 /\ k <= Len(url)
    /\ \A i \in 13..k : url[i] # "/"
    /\ \/ k = Len(url)
       \/ /\ url[k + 1] = "/"
          /\ k + 2 <= Len(url)
          /\ \A i \in (k + 2)..Len(url) : url[i] \notin {"\n", "\r"}

IsProtocolForm(url) == \E k \in 1..Len(url) : ProtocolFormAt(url, k)

CidOf(url) == SubSeq(url, 13, CHOOSE k \in 1..Len(url) : ProtocolFormAt(url, k))

PathOf(url) == Drop(url, CHOOSE k \in 1..Len(url) : ProtocolFormAt(url, k))

\* Qm followed by 44 base58 characters
IsBareCid(url) ==
    /\ Len(url) = 46
    /\ Take(url, 2) = <<"Q","m">>
    /\ Range(Drop(url, 2)) \subseteq Base58Chars

\* C4: ipfsUrl(url, builder) returns builder(cid, path) for a url of the form
\* ipfs://ipfs/<cid>[/<path>] (path empty when absent), builder(url) for a bare
\* CID, and url itself, the builder not invoked, for any other string; the
\* builder is invoked at most once, and the default builder gives
\* https://ipfs.io/ipfs/<cid><path>.
C4_IpfsUrlThreeOutcomes ==
    fn = "ipfsUrl" =>
        LET url == args[1]
            b == args[2]
        IN  /\ Len(calls) <= 1
            /\ IsProtocolForm(url) =>
                   /\ calls = << <<CidOf(url), PathOf(url)>> >>
                   /\ result = Build(b, <<CidOf(url), PathOf(url)>>)
                   /\ b = "default" =>
                          result = <<"h","t","t","p","s",":","/","/","i","p","f","s",".","i","o","/","i","p","f","s","/">> \o CidOf(url) \o PathOf(url)
            /\ IsBareCid(url) =>
                   /\ calls = << <<url>> >>
                   /\ result = Build(b, <<url>>)
                   /\ b = "default" => result = <<"h","t","t","p","s",":","/","/","i","p","f","s",".","i","o","/","i","p","f","s","/">> \o url
            /\ (~IsProtocolForm(url) /\ ~IsBareCid(url)) =>
                   /\ calls = <<>>
                   /\ result = url

\* a locator with a path was rewritten by the default builder
C4_Witness ==
    /\ fn = "ipfsUrl"
    /\ args[2] = "default"
    /\ IsProtocolForm(args[1])
    /\ PathOf(args[1]) = <<"/","s","u","b","/","p","a","t","h">>
    /\ Len(calls) = 1
    /\ result # args[1]

\* the value of the first query parameter called name, <<>> when there is none
QueryParam(u, name) ==
    LET ps == SearchParams(u)
    IN  IF \E i \in 1..Len(ps) : ps[i][1] = name
        THEN ps[CHOOSE i \in 1..Len(ps) : ps[i][1] = name /\ \A j \in 1..(i - 1) : ps[j][1] # name][2]
        ELSE <<>>

\* C5: normalizeOpenSeaUrl(url, tokenId) returns url itself when url does not
\* parse, when its host is not api.opensea.io or when its path has no
\* 0x%7Bid%7D; otherwise it returns the rebuilt URL, where every placeholder of
\* the path is replaced by tokenId and the query parameter format is json.
C5_OpenSeaUrl ==
    fn = "normalizeOpenSeaUrl" =>
        LET url == args[1]
            tokenId == args[2]
            u == NewURL(url)
        IN  IF ~u.ok \/ u.host # <<"a","p","i",".","o","p","e","n","s","e","a",".","i","o">> \/ ~Includes(u.pathname, <<"0","x","%","7","B","i","d","%","7","D">>)
            THEN result = url
            ELSE LET r == NewURL(result)
                 IN  /\ r.ok
                     /\ result = Href(r)
                     /\ r.scheme = u.scheme /\ r.host = u.host
                     /\ r.hasHash = u.hasHash /\ r.hash = u.hash
                     /\ ~Includes(r.pathname, <<"0","x","%","7","B","i","d","%","7","D">>)
                     /\ r.pathname = ReplaceAll(u.pathname, <<"0","x","%","7","B","i","d","%","7","D">>, tokenId)
                     /\ QueryParam(r, <<"f","o","r","m","a","t">>) = <<"j","s","o","n">>
                     /\ Cardinality({i \in 1..Len(SearchParams(r)) :
                                        SearchParams(r)[i][1] = <<"f","o","r","m","a","t">>}) = 1

\* a templated OpenSea URL with two placeholders and a format parameter was rebuilt
C5_Witness ==
    /\ fn = "normalizeOpenSeaUrl"
    /\ args[1] = <<"h","t","t","p","s",":","/","/","a","p","i",".","o","p","e","n","s","e","a",".","i","o","/","0","x","%","7","B","i","d","%","7","D","/","x","/","0","x","%","7","B","i","d","%","7","D","?","f","o","r","m","a","t","=","x","m","l">>
    /\ args[2] = <<"4","2">>
    /\ result = <<"h","t","t","p","s",":","/","/","a","p","i",".","o","p","e","n","s","e","a",".","i","o","/","4","2","/","x","/","4","2","?","f","o","r","m","a","t","=","j","s","o","n">>

\* C6: normalizeNiftyGatewayUrl(url) returns url itself when url does not parse
\* or its host is not api.niftygateway.com; otherwise it returns the rebuilt URL
\* whose path is the path of url with one slash appended.
C6_NiftyGatewayUrl ==
    fn = "normalizeNiftyGatewayUrl" =>
        LET url == args[1]
            u == NewURL(url)
        IN  /\ IF ~u.ok \/ u.host # <<"a","p","i",".","n","i","f","t","y","g","a","t","e","w","a","y",".","c","o","m">>
               THEN result = url
               ELSE LET r == NewURL(result)
                    IN  /\ r.ok
                        /\ result = Href(r)
                        /\ r.pathname = u.pathname \o <<"/">>
                        /\ r.scheme = u.scheme /\ r.host = u.host
                        /\ r.hasQuery = u.hasQuery /\ r.query = u.query
                        /\ r.hasHash = u.hasHash /\ r.hash = u.hash
            /\ url = <<"h","t","t","p","s",":","/","/","a","p","i",".","n","i","f","t","y","g","a","t","e","w","a","y",".","c","o","m","/","p","a","t","h">>
                   => result = <<"h","t","t","p","s",":","/","/","a","p","i",".","n","i","f","t","y","g","a","t","e","w","a","y",".","c","o","m","/","p","a","t","h","/">>

\* a Nifty Gateway URL whose path already ends with a slash got one more
C6_Witness ==
    /\ fn = "normalizeNiftyGatewayUrl"
    /\ args[1] = <<"h","t","t","p","s",":","/","/","a","p","i",".","n","i","f","t","y","g","a","t","e","w","a","y",".","c","o","m","/","p","a","t","h","/">>
    /\ result = <<"h","t","t","p","s",":","/","/","a","p","i",".","n","i","f","t","y","g","a","t","e","w","a","y",".","c","o","m","/","p","a","t","h","/","/">>

\* C7: normalizeTokenUrl(url, tokenId) is
\* ipfsUrl(normalizeNiftyGatewayUrl(normalizeOpenSeaUrl(url, tokenId))) with the
\* default gateway builder.
C7_TokenUrlStages ==
    fn = "normalizeTokenUrl" =>
        result = ipfsUrl(normalizeNiftyGatewayUrl(normalizeOpenSeaUrl(args[1], args[2])),
                         "default").ret

\* a Nifty Gateway URL went through the three stages and came out rebuilt
C7_Witness ==
    /\ fn = "normalizeTokenUrl"
    /\ args[1] = <<"h","t","t","p","s",":","/","/","a","p","i",".","n","i","f","t","y","g","a","t","e","w","a","y",".","c","o","m","/","p","a","t","h">>
    /\ result = <<"h","t","t","p","s",":","/","/","a","p","i",".","n","i","f","t","y","g","a","t","e","w","a","y",".","c","o","m","/","p","a","t","h","/">>

\* C10: normalizeImageUrl applied twice gives what it gives applied once, and an
\* http:// or https:// URL is returned unchanged.
C10_ImageUrlIdempotent ==
    /\ (fn = "normalizeImageUrl" /\ times = 2) => result = prev
    /\ (fn = "normalizeImageUrl" /\ times = 1
        /\ (StartsWith(args[1], <<"h","t","t","p",":","/","/">>) \/ StartsWith(args[1], <<"h","t","t","p","s",":","/","/">>)))
           => result = args[1]

\* a bare CID was rewritten by the first application and kept by the second
C10_Witness ==
    /\ fn = "normalizeImageUrl"
    /\ times = 2
    /\ IsBareCid(args[1])
    /\ prev # args[1]
    /\ result = prev

----------------------------------------------------------------------------
(* Claims about the metadata functions and addressesEqual *)

\* C3: addressesEqual(a, b) is true iff a and b are both strings that are equal
\* ignoring letter case; it is false whenever a or b is null or undefined.
C3_AddressesEqual ==
    fn = "addressesEqual" =>
        LET a == args[1]
            b == args[2]
        IN  result = (/\ a.t = "string" /\ b.t = "string"
                      /\ toLowerCase(a.s) = toLowerCase(b.s))

\* data is an object without image and with a string imageUrl
NeedsImage(data) ==
    /\ data.t = "object"
    /\ "image" \notin DOMAIN data.f
    /\ "imageUrl" \in DOMAIN data.f
    /\ data.f["imageUrl"].t = "string"

\* C8: fixIncorrectImageField(data) returns, for an object without image and
\* with a string imageUrl, a copy where image is imageUrl and every other field
\* is as in data; for any other data it returns data itself.
C8_FixIncorrectImageField ==
    fn = "fixIncorrectImageField" =>
        LET data == args[1]
        IN  IF NeedsImage(data)
            THEN /\ result.ref = "copy"
                 /\ result.val.t = "object"
                 /\ DOMAIN result.val.f = DOMAIN data.f \cup {"image"}
                 /\ result.val.f["image"] = data.f["imageUrl"]
                 /\ \A k \in DOMAIN data.f : result.val.f[k] = data.f[k]
            ELSE /\ result.ref = "data"
                 /\ result.val = data

\* an object with imageUrl, name and no image was copied with image set
C8_Witness ==
    /\ fn = "fixIncorrectImageField"
    /\ NeedsImage(args[1])
    /\ "name" \in DOMAIN args[1].f
    /\ result.ref = "copy"
    /\ result.val.f["image"] = Str("a.png")

\* v is an object whose type is "string" and whose description is a string
IsStringSlot(v) ==
    /\ v.t = "object"
    /\ {"type", "description"} \subseteq DOMAIN v.f
    /\ v.f["type"] = Str("string")
    /\ v.f["description"].t = "string"

\* the shape of a JSON schema returned in place of the metadata
SchemaShape(data) ==
    /\ data.t = "object"
    /\ {"title", "type", "properties"} \subseteq DOMAIN data.f
    /\ data.f["title"] = Str("Asset Metadata")
    /\ data.f["type"] = Str("object")
    /\ data.f["properties"].t = "object"
    /\ {"name", "image", "description"} \subseteq DOMAIN data.f["properties"].f
    /\ \A k \in {"name", "image", "description"} : IsStringSlot(data.f["properties"].f[k])

\* C9: isNftMetadataMixedInJsonSchema(data) is true iff data has the schema
\* shape, and for such data fixNftMetadataMixedInJsonSchema(data) is the record
\* of the three description strings, which isNftMetadata accepts.
C9_MixedInJsonSchema ==
    /\ fn = "isNftMetadataMixedInJsonSchema" => result = SchemaShape(args[1])
    /\ (fn = "fixNftMetadataMixedInJsonSchema" /\ SchemaShape(args[1])) =>
           LET props == args[1].f["properties"].f
               fixed == IF times = 1 THEN result ELSE prev
           IN  /\ fixed.t = "object"
               /\ DOMAIN fixed.f = {"name", "image", "description"}
               /\ \A k \in {"name", "image", "description"} :
                      fixed.f[k] = props[k].f["description"]
               /\ times = 2 => result = TRUE

\* a schema-shaped document was recognised
C9_Witness ==
    /\ fn = "isNftMetadataMixedInJsonSchema"
    /\ SchemaShape(args[1])
    /\ args[1].f["properties"].f["image"].f["description"] = Str("ipfs://ipfs/x")
    /\ result = TRUE

====
